---- MODULE Spec2Model ----
(***************************************************************************)
(* Model of autokeras/nn/generator.py: the five network generators         *)
(* (CnnGenerator, MlpGenerator, ResNetGenerator, DenseNetGenerator,        *)
(* MobileNetV2Generator).  A generator instance is constructed from an     *)
(* output cardinality and an input shape, and generate() builds a graph by *)
(* a sequence of graph.add_layer calls.  The graph store and the stub      *)
(* layers (autokeras.nn.graph, autokeras.nn.layers) and the constants      *)
(* (autokeras.constant) are collaborators outside generator.py; they are   *)
(* modelled by their shape contracts.                                      *)
(***************************************************************************)
EXTENDS Integers, Sequences, FiniteSets, TLC

\* req       the arguments of the last constructor call
\* gen       the generator instance (NoGen when the constructor raised)
\* err       the error of the last constructor or generate call, or "none"
\* consulted whether the last constructor call reached the operator resolver
\* calls     the number of generate calls made on the instance
\* args, graph, blocks   the last generate call: arguments, result, blocks built
VARIABLES req, gen, err, consulted, calls, args, graph, blocks

vars == <<req, gen, err, consulted, calls, args, graph, blocks>>

(* ------------------------------ bounds --------------------------------- *)
MaxRank == 5
MaxDepth == 8
MaxWidthMul == 4
MaxSeqLen == 3
MaxCalls == 2

(* ------------------------------ inputs --------------------------------- *)
\* one input shape per rank 0..MaxRank, channel-last: (8, ..., 8, 3)
ShapeOfRank(r) == [i \in 1..r |-> IF i = r THEN 3 ELSE 8]
InputShapes == {ShapeOfRank(r) : r \in 0..MaxRank}
OutputCardinalities == {2, 10}
\* an optional argument is <<>> (None) or <<v>>
Depths == {<<>>} \cup {<<n>> : n \in 1..MaxDepth}
\* ResNet, DenseNet and MobileNetV2 never use model_len
UnusedDepths == {<<>>, <<MaxDepth>>}
WidthInts == {16 * i : i \in 1..MaxWidthMul}
\* model_width as passed by the caller: None, an int, a list or a tuple
RECURSIVE Pow2(_)
Pow2(n) == IF n = 0 THEN 1 ELSE 2 * Pow2(n - 1)
WidthSeq(n) == [i \in 1..n |-> 8 * Pow2(i - 1)]
NoneWidth == [form |-> "none", val |-> <<>>]
IntWidths == {[form |-> "int", val |-> <<w>>] : w \in WidthInts}
SeqWidths == {[form |-> f, val |-> WidthSeq(n)] : f \in {"list", "tuple"}, n \in 0..MaxSeqLen}
CnnWidthArgs == {NoneWidth} \cup IntWidths
MlpWidthArgs == {NoneWidth} \cup IntWidths \cup SeqWidths
NoArgs == [len |-> <<>>, width |-> NoneWidth]

(* --------------------- autokeras.constant.Constant --------------------- *)
MODEL_LEN == 2
MODEL_WIDTH == 64
POOLING_KERNEL_SIZE == 2

(* ------------------------ autokeras.nn.layers -------------------------- *)
Last(s) == s[Len(s)]
Front(s) == SubSeq(s, 1, Len(s) - 1)
Max(a, b) == IF a >= b THEN a ELSE b

Layer(kind, inC, outC, k, s, p, g, rate) ==
    [kind |-> kind, inC |-> inC, outC |-> outC, k |-> k, s |-> s, p |-> p, g |-> g, rate |-> rate]
InputLayer == Layer("input", 0, 0, 0, 0, 0, 0, "")
StubReLU == Layer("relu", 0, 0, 0, 0, 0, 0, "")
StubAdd == Layer("add", 0, 0, 0, 0, 0, 0, "")
StubConcatenate == Layer("concatenate", 0, 0, 0, 0, 0, 0, "")
StubDense(input_units, units) == Layer("dense", input_units, units, 0, 0, 0, 0, "")
StubDropout1d(rate) == Layer("dropout1d", 0, 0, 0, 0, 0, 0, rate)
batch_norm(num_features) == Layer("batch_norm", num_features, num_features, 0, 0, 0, 0, "")
dropout(rate) == Layer("dropout", 0, 0, 0, 0, 0, 0, rate)
global_avg_pooling == Layer("global_avg_pooling", 0, 0, 0, 0, 0, 0, "")
conv(input_channel, filters, kernel_size, stride, padding, groups) ==
    Layer("conv", input_channel, filters, kernel_size, stride, padding, groups, "")
\* padding of a convolution built without an explicit padding argument
SamePadding(kernel_size) == kernel_size \div 2
pooling(kind, kernel_size, stride, padding) == Layer(kind, 0, 0, kernel_size, stride, padding, 0, "")

SpatialDim(d, k, s, p) == Max((d + 2 * p - k) \div s + 1, 1)

RECURSIVE SumLast(_)
SumLast(shapes) ==
    IF Len(shapes) = 0 THEN 0 ELSE Last(shapes[1]) + SumLast(Tail(shapes))

\* shape of the node a layer produces from the shapes of its input nodes
output_shape(layer, ins) ==
    LET in1 == ins[1]
        sp == Front(in1)
        mapped == [i \in 1..Len(sp) |-> SpatialDim(sp[i], layer.k, layer.s, layer.p)]
    IN  CASE layer.kind = "conv" -> Append(mapped, layer.outC)
          [] layer.kind \in {"max_pooling", "avg_pooling"} -> Append(mapped, Last(in1))
          [] layer.kind = "global_avg_pooling" -> <<Last(in1)>>
          [] layer.kind = "dense" -> <<layer.outC>>
          [] layer.kind = "concatenate" -> Append(sp, SumLast(ins))
          [] OTHER -> in1

(* ------------------------- autokeras.nn.graph -------------------------- *)
\* a graph is the sequence of its nodes; node id n is element n + 1
Graph(input_shape) == <<[shape |-> input_shape, layer |-> InputLayer, preds |-> <<>>]>>
NodeShape(g, id) == g[id + 1].shape
add_layer(g, layer, preds) ==
    Append(g, [shape |-> output_shape(layer, [i \in 1..Len(preds) |-> NodeShape(g, preds[i])]),
               layer |-> layer, preds |-> preds])
\* id returned by the add_layer call that produced g.  A graph is never
\* empty (it holds its input node): the loops below test Len(g) = 0 only to
\* have the graph of one iteration built before the next iteration starts.
Out(g) == Len(g) - 1

\* the dimensional operator resolver (get_conv_class and its siblings)
ResolverSupports(n_dim) == n_dim \in 1..3

(* --------------------------- NetworkGenerator -------------------------- *)
NoGen == [kind |-> "none", n_output_node |-> 0, input_shape |-> <<>>, n_dim |-> 0,
          in_planes |-> 0, block_expansion |-> 0, cfg |-> <<>>, resolved |-> FALSE]
NetworkGenerator_init(kind, n_output_node, input_shape) ==
    [NoGen EXCEPT !.kind = kind, !.n_output_node = n_output_node, !.input_shape = input_shape]
\* outcome of a constructor: the instance (NoGen when it raised), the error,
\* and whether the operator resolver was reached
Built(self) == [self |-> self, err |-> "none", consulted |-> self.resolved]
Raised(e, c) == [self |-> NoGen, err |-> e, consulted |-> c]
\* outcome of generate: the returned graph (<<>> when it raised), the instance
\* as generate leaves it, the error, and the blocks that were built
Returned(g, self, b) == [graph |-> g, self |-> self, err |-> "none", blocks |-> b]
Failed(e, self) == [graph |-> <<>>, self |-> self, err |-> e, blocks |-> <<>>]
ArgOr(arg, default) == IF arg = <<>> THEN default ELSE arg[1]

(* ------------------- the add_layer idioms of generate ------------------ *)
\* output_node_id = graph.add_layer(layer, output_node_id): append to the
\* node the previous add_layer call returned
add_next(g, layer) == add_layer(g, layer, <<Out(g)>>)
\* graph.add_layer(self.batch_norm(graph.node_list[id].shape[-1]), id)
add_norm(g) == add_layer(g, batch_norm(Last(NodeShape(g, Out(g)))), <<Out(g)>>)
\* graph.add_layer(layer, (other, id)): a two-input layer whose second input
\* is the node the previous add_layer call returned
add_join(g, layer, other) == add_layer(g, layer, <<other, Out(g)>>)

(* ----------------------------- CnnGenerator ---------------------------- *)
CONV_DROPOUT_RATE == "Constant.CONV_DROPOUT_RATE"
MLP_DROPOUT_RATE == "Constant.MLP_DROPOUT_RATE"

CnnGenerator_new(n_output_node, input_shape) ==
    LET self == [NetworkGenerator_init("cnn", n_output_node, input_shape)
                   EXCEPT !.n_dim = Len(input_shape) - 1]
    IN  IF Len(input_shape) > 4 THEN Raised("InvalidInputRank", FALSE)
        ELSE IF Len(input_shape) < 2 THEN Raised("InvalidInputRank", FALSE)
        ELSE IF ~ResolverSupports(self.n_dim) THEN Raised("UnsupportedRank", TRUE)
        ELSE Built([self EXCEPT !.resolved = TRUE])

\* the pooling condition without the exclusion of the last iteration
CnnPoolsAfterAlsoLast(i, model_len, pooling_len) ==
    pooling_len = 0 \/ (i + 1) % pooling_len = 0

\* the condition under which an iteration is followed by a pooling layer
CnnPoolsAfter(i, model_len, pooling_len) ==
    pooling_len = 0 \/ ((i + 1) % pooling_len = 0 /\ i # model_len - 1)

\* one iteration of the loop of generate
CnnIteration(g, i, model_len, model_width, pooling_len, temp_input_channel) ==
    LET g3 == add_next(add_norm(add_next(g, StubReLU)),
                       conv(temp_input_channel, model_width, 3, 1, SamePadding(3), 1))
    IN  IF CnnPoolsAfter(i, model_len, pooling_len)
        THEN add_next(g3, pooling("max_pooling", POOLING_KERNEL_SIZE, POOLING_KERNEL_SIZE, 0))
        ELSE g3

RECURSIVE CnnLoop(_, _, _, _, _, _)
CnnLoop(g, i, model_len, model_width, pooling_len, temp_input_channel) ==
    IF i >= model_len \/ Len(g) = 0 THEN g
    ELSE CnnLoop(CnnIteration(g, i, model_len, model_width, pooling_len, temp_input_channel),
                 i + 1, model_len, model_width, pooling_len, model_width)

\* StubDense(graph.node_list[output_node_id].shape[0], model_width)
CnnHidden(g, model_width) == add_next(g, StubDense(NodeShape(g, Out(g))[1], model_width))

\* the layers appended after the convolutional loop, with the last dense layer
\* sized to the hidden width
CnnHeadHiddenOutput(g, model_width, n_output_node) ==
    add_next(add_next(CnnHidden(add_next(add_next(g, global_avg_pooling),
                                         dropout(CONV_DROPOUT_RATE)), model_width),
                      StubReLU),
             StubDense(model_width, model_width))

\* the layers appended after the convolutional loop
CnnHead(g, model_width, n_output_node) ==
    add_next(add_next(CnnHidden(add_next(add_next(g, global_avg_pooling),
                                         dropout(CONV_DROPOUT_RATE)), model_width),
                      StubReLU),
             StubDense(model_width, n_output_node))

CnnGenerator_generate(self, len, width) ==
    LET model_len == ArgOr(len, MODEL_LEN)
        model_width == ArgOr(width.val, MODEL_WIDTH)
        pooling_len == model_len \div 4
    IN  Returned(CnnHead(CnnLoop(Graph(self.input_shape), 0, model_len, model_width,
                                 pooling_len, Last(self.input_shape)),
                         model_width, self.n_output_node),
                 self, <<>>)

(* ----------------------------- MlpGenerator ---------------------------- *)
MlpGenerator_new(n_output_node, input_shape) ==
    LET self == NetworkGenerator_init("mlp", n_output_node, input_shape)
    IN  IF Len(input_shape) > 1 THEN Raised("InvalidInputRank", FALSE)
        ELSE Built(self)

\* the width check at the head of generate: TRUE when it raises
MlpWidthRejected(width, model_len) ==
    width.form = "list" /\ Len(width.val) # model_len

\* model_width after the isinstance branches: the per-layer widths
MlpWidths(width, model_len) ==
    IF width.form = "none" THEN [i \in 1..model_len |-> MODEL_WIDTH]
    ELSE IF width.form = "int" THEN [i \in 1..model_len |-> width.val[1]]
    ELSE width.val

\* the loop of generate, and the final dense layer once the widths are used up
RECURSIVE MlpLoop(_, _, _, _)
MlpLoop(g, widths, n_nodes_prev_layer, n_output_node) ==
    IF widths = <<>> \/ Len(g) = 0
    THEN add_next(g, StubDense(n_nodes_prev_layer, n_output_node))
    ELSE MlpLoop(add_next(add_next(add_next(g, StubDense(n_nodes_prev_layer, Head(widths))),
                                   StubDropout1d(MLP_DROPOUT_RATE)),
                          StubReLU),
                 Tail(widths), Head(widths), n_output_node)

MlpGenerator_generate(self, len, width) ==
    LET model_len == ArgOr(len, MODEL_LEN)
    IN  IF MlpWidthRejected(width, model_len) THEN Failed("WidthLengthMismatch", self)
        ELSE IF Len(self.input_shape) = 0 THEN Failed("IndexError", self)
        ELSE Returned(MlpLoop(Graph(self.input_shape), MlpWidths(width, model_len),
                              self.input_shape[1], self.n_output_node),
                      self, <<>>)

(* ---------------------------- ResNetGenerator -------------------------- *)
\* what one block-building call did: the channel arguments it was given, its
\* stride, the node it was attached to and the ids of the nodes it appended
BlockRec(in_planes, out_planes, stride, layers, input, first, last) ==
    [in_planes |-> in_planes, out_planes |-> out_planes, stride |-> stride, layers |-> layers,
     input |-> input, first |-> first, last |-> last]

ResNetGenerator_new(n_output_node, input_shape) ==
    LET self == [NetworkGenerator_init("resnet", n_output_node, input_shape)
                   EXCEPT !.in_planes = 64, !.block_expansion = 1,
                          !.n_dim = Len(input_shape) - 1]
    IN  IF Len(input_shape) > 4 THEN Raised("InvalidInputRank", FALSE)
        ELSE IF Len(input_shape) < 2 THEN Raised("InvalidInputRank", FALSE)
        ELSE IF ~ResolverSupports(self.n_dim) THEN Raised("UnsupportedRank", TRUE)
        ELSE Built([self EXCEPT !.resolved = TRUE])

\* the shortcut branch with its convolution left at stride 1
ResNetShortcutUnstrided(g, block_expansion, in_planes, planes, residual_node_id, stride) ==
    add_join(add_next(add_layer(g, StubReLU, <<residual_node_id>>),
                      conv(in_planes, planes * block_expansion, 1, 1, SamePadding(1), 1)),
             StubAdd, Out(g))

\* the shortcut branch from residual_node_id and the add that ends the block;
\* g ends with the main branch
ResNetShortcut(g, block_expansion, in_planes, planes, residual_node_id, stride) ==
    add_join(add_next(add_layer(g, StubReLU, <<residual_node_id>>),
                      conv(in_planes, planes * block_expansion, 1, stride, SamePadding(1), 1)),
             StubAdd, Out(g))

\* the main branch; g ends with the node the branches start from
ResNetBranches(g, block_expansion, in_planes, planes, stride) ==
    ResNetShortcut(add_next(add_next(add_next(add_next(g,
                        conv(in_planes, planes, 3, stride, SamePadding(3), 1)),
                        batch_norm(planes)),
                        StubReLU),
                        conv(planes, planes, 3, 1, SamePadding(3), 1)),
                   block_expansion, in_planes, planes, Out(g), stride)

ResNet_make_block(g, block_expansion, in_planes, planes, node_id, stride) ==
    ResNetBranches(add_next(add_layer(g, batch_norm(in_planes), <<node_id>>), StubReLU),
                   block_expansion, in_planes, planes, stride)

\* in_planes left at its constructor value
ResNetInPlanesKept(planes, block_expansion) == 64 * block_expansion

\* the value _make_layer stores in self.in_planes after each block
ResNetNextInPlanes(planes, block_expansion) == planes * block_expansion

\* st = [g, self, out, blocks]: the graph, the instance, the frontier node id
\* and the record of the blocks built so far; g is st.g with the block appended
ResNetAfterBlock(st, g, planes, stride) ==
    [g |-> g,
     self |-> [st.self EXCEPT !.in_planes = ResNetNextInPlanes(planes, st.self.block_expansion)],
     out |-> Out(g),
     blocks |-> Append(st.blocks,
                       BlockRec(st.self.in_planes, planes, stride, 0, st.out, Len(st.g), Out(g)))]

RECURSIVE ResNetBlocks(_, _, _)
ResNetBlocks(st, planes, strides) ==
    IF strides = <<>> \/ Len(st.g) = 0 THEN st
    ELSE ResNetBlocks(ResNetAfterBlock(st,
                          ResNet_make_block(st.g, st.self.block_expansion, st.self.in_planes,
                                            planes, st.out, Head(strides)),
                          planes, Head(strides)),
                      planes, Tail(strides))

ResNet_make_layer(st, planes, nblocks, stride) ==
    ResNetBlocks(st, planes, [i \in 1..nblocks |-> IF i = 1 THEN stride ELSE 1])

\* the first two layers of generate
ResNetStem(self, model_width) ==
    add_next(add_layer(Graph(self.input_shape),
                       conv(Last(self.input_shape), model_width, 3, 1, SamePadding(3), 1), <<0>>),
             batch_norm(model_width))

\* the last two layers of generate; model_width is the width of the last stage
ResNetOutput(st, model_width, n_output_node) ==
    Returned(add_next(add_layer(st.g, global_avg_pooling, <<st.out>>),
                      StubDense(model_width * st.self.block_expansion, n_output_node)),
             st.self, st.blocks)

BlocksStart(g, self) == [g |-> g, self |-> self, out |-> Out(g), blocks |-> <<>>]

ResNetGenerator_generate(self, len, width) ==
    LET model_width == ArgOr(width.val, MODEL_WIDTH)
        s1 == ResNet_make_layer(BlocksStart(ResNetStem(self, model_width), self),
                                model_width, 2, 1)
        s2 == ResNet_make_layer(s1, model_width * 2, 2, 2)
        s3 == ResNet_make_layer(s2, model_width * 4, 2, 2)
        s4 == ResNet_make_layer(s3, model_width * 8, 2, 2)
    IN  ResNetOutput(s4, model_width * 8, self.n_output_node)

(* --------------------------- DenseNetGenerator ------------------------- *)
num_init_features == 64
growth_rate == 32
block_config == <<6, 12, 24, 16>>
bn_size == 4
drop_rate == "0"

DenseNetGenerator_new(n_output_node, input_shape) ==
    LET self == [NetworkGenerator_init("densenet", n_output_node, input_shape)
                   EXCEPT !.n_dim = Len(input_shape) - 1]
    IN  IF ~ResolverSupports(self.n_dim) THEN Raised("UnsupportedRank", TRUE)
        ELSE Built([self EXCEPT !.resolved = TRUE])

DenseNet_dense_layer(g, num_input_features, input_node_id) ==
    add_join(add_next(add_next(add_next(add_next(add_next(add_next(
                 add_layer(g, batch_norm(num_input_features), <<input_node_id>>),
                 StubReLU),
                 conv(num_input_features, bn_size * growth_rate, 1, 1, SamePadding(1), 1)),
                 batch_norm(bn_size * growth_rate)),
                 StubReLU),
                 conv(bn_size * growth_rate, growth_rate, 3, 1, 1, 1)),
                 dropout(drop_rate)),
             StubConcatenate, input_node_id)

\* the input-channel count _dense_block declares for its i-th layer (i from 0)
DenseLayerInput(num_input_features, i) == num_input_features + i * growth_rate

\* the frontier block_input_node is Out(g)
RECURSIVE DenseNet_dense_block(_, _, _, _)
DenseNet_dense_block(g, i, num_layers, num_input_features) ==
    IF i >= num_layers \/ Len(g) = 0 THEN g
    ELSE DenseNet_dense_block(
             DenseNet_dense_layer(g, DenseLayerInput(num_input_features, i), Out(g)),
             i + 1, num_layers, num_input_features)

DenseNet_transition(g, num_input_features, num_output_features, input_node_id) ==
    add_next(add_next(add_next(add_layer(g, batch_norm(num_input_features), <<input_node_id>>),
                               StubReLU),
                      conv(num_input_features, num_output_features, 1, 1, SamePadding(1), 1)),
             pooling("avg_pooling", 2, 2, 0))

\* st = [g, num_features, blocks] with the frontier db_input_node_id = Out(st.g);
\* g is st.g with the i-th dense block appended
DenseNetAfterBlock(st, g, i) ==
    LET num_features == st.num_features + block_config[i] * growth_rate
        b == BlockRec(st.num_features, num_features, 0, block_config[i], Out(st.g),
                      Len(st.g), Out(g))
    IN  IF i # Len(block_config)
        THEN [g |-> DenseNet_transition(g, num_features, num_features \div 2, Out(g)),
              num_features |-> num_features \div 2,
              blocks |-> Append(st.blocks, b)]
        ELSE [g |-> g, num_features |-> num_features, blocks |-> Append(st.blocks, b)]

RECURSIVE DenseNetBlocks(_, _)
DenseNetBlocks(st, i) ==
    IF i > Len(block_config) \/ Len(st.g) = 0 THEN st
    ELSE DenseNetBlocks(DenseNetAfterBlock(st,
                            DenseNet_dense_block(st.g, 0, block_config[i], st.num_features), i),
                        i + 1)

\* the first convolution, its normalization, activation and max pooling
DenseNetStem(self, model_width) ==
    add_next(add_next(add_next(add_layer(Graph(self.input_shape),
                 conv(Last(self.input_shape), model_width, 7, 1, SamePadding(7), 1), <<0>>),
                 batch_norm(num_init_features)),
                 StubReLU),
             pooling("max_pooling", 3, 2, 1))

\* the final batch norm, pooling and linear layer
DenseNetOutput(st, self) ==
    Returned(add_next(add_next(add_next(add_next(st.g, batch_norm(st.num_features)),
                                        StubReLU),
                               global_avg_pooling),
                      StubDense(st.num_features, self.n_output_node)),
             self, st.blocks)

DenseNetGenerator_generate(self, len, width) ==
    LET model_width == ArgOr(width.val, MODEL_WIDTH)
    IN  DenseNetOutput(DenseNetBlocks([g |-> DenseNetStem(self, model_width),
                                       num_features |-> num_init_features,
                                       blocks |-> <<>>], 1),
                       self)

(* -------------------------- MobileNetV2Generator ----------------------- *)
\* (expansion, out_planes, num_blocks, stride)
MobileNetCfg == <<<<1, 16, 1, 1>>, <<6, 24, 2, 1>>>>

MobileNetV2Generator_new(n_output_node, input_shape) ==
    LET self == [NetworkGenerator_init("mobilenet", n_output_node, input_shape)
                   EXCEPT !.cfg = MobileNetCfg, !.in_planes = 32, !.block_expansion = 1,
                          !.n_dim = Len(input_shape) - 1]
    IN  IF Len(input_shape) > 4 THEN Raised("InvalidInputRank", FALSE)
        ELSE IF Len(input_shape) < 2 THEN Raised("InvalidInputRank", FALSE)
        ELSE IF ~ResolverSupports(self.n_dim) THEN Raised("UnsupportedRank", TRUE)
        ELSE Built([self EXCEPT !.resolved = TRUE])

\* the shortcut condition without the comparison of the channel counts
MobileNetShortcutOnStride(stride, in_planes, out_planes) ==
    stride = 1

\* the condition under which _make_block adds the projection shortcut
MobileNetHasShortcut(stride, in_planes, out_planes) ==
    stride = 1 /\ in_planes # out_planes

\* the end of _make_block; g ends with the main branch
MobileNetShortcut(g, in_planes, out_planes, node_id, stride) ==
    IF MobileNetHasShortcut(stride, in_planes, out_planes)
    THEN add_join(add_norm(add_layer(g, conv(in_planes, out_planes, 1, 1, 0, 1), <<node_id>>)),
                  StubAdd, Out(g))
    ELSE g

MobileNet_make_block(g, in_planes, out_planes, expansion, node_id, stride) ==
    LET planes == expansion * in_planes
    IN  MobileNetShortcut(
            add_norm(add_next(
            add_next(add_norm(add_next(
            add_next(add_norm(add_layer(g,
                conv(in_planes, planes, 1, 1, 0, 1), <<node_id>>)),
                StubReLU),
                conv(planes, planes, 3, stride, 1, planes))),
                StubReLU),
                conv(planes, out_planes, 1, 1, 0, 1))),
            in_planes, out_planes, node_id, stride)

\* st = [g, self, out, blocks] as for ResNet; g is st.g with the block appended
MobileNetAfterBlock(st, g, out_planes, stride) ==
    [g |-> g,
     self |-> [st.self EXCEPT !.in_planes = out_planes],
     out |-> Out(g),
     blocks |-> Append(st.blocks,
                       BlockRec(st.self.in_planes, out_planes, stride, 0, st.out,
                                Len(st.g), Out(g)))]

RECURSIVE MobileNetBlocks(_, _, _, _)
MobileNetBlocks(st, expansion, out_planes, strides) ==
    IF strides = <<>> \/ Len(st.g) = 0 THEN st
    ELSE MobileNetBlocks(MobileNetAfterBlock(st,
                             MobileNet_make_block(st.g, st.self.in_planes, out_planes,
                                                  expansion, st.out, Head(strides)),
                             out_planes, Head(strides)),
                         expansion, out_planes, Tail(strides))

\* cfg[i] = (expansion, out_planes, num_blocks, stride)
MobileNetStrides(c) == [j \in 1..c[3] |-> IF j = 1 THEN c[4] ELSE 1]

RECURSIVE MobileNet_make_layer(_, _)
MobileNet_make_layer(st, i) ==
    IF i > Len(st.self.cfg) \/ Len(st.g) = 0 THEN st
    ELSE MobileNet_make_layer(MobileNetBlocks(st, st.self.cfg[i][1], st.self.cfg[i][2],
                                              MobileNetStrides(st.self.cfg[i])),
                              i + 1)

\* the first convolution, its normalization and activation
MobileNetStem(self) ==
    add_next(add_norm(add_layer(Graph(self.input_shape),
                                conv(Last(self.input_shape), self.in_planes, 3, 1, 1, 1), <<0>>)),
             StubReLU)

\* the layers after the blocks
MobileNetOutput(st, out_planes, n_output_node) ==
    Returned(add_next(add_next(add_next(add_norm(
                 add_layer(st.g, conv(out_planes, out_planes * 4, 1, 1, 0, 1), <<st.out>>)),
                 StubReLU),
                 global_avg_pooling),
                 StubDense(out_planes * 4, n_output_node)),
             st.self, st.blocks)

MobileNetV2Generator_generate(self, len, width) ==
    MobileNetOutput(MobileNet_make_layer(BlocksStart(MobileNetStem(self), self), 1),
                    24, self.n_output_node)

(* ---------------------------- state machine ---------------------------- *)
NoReq == [kind |-> "none", n_output_node |-> 0, input_shape |-> <<>>]

Init ==
    /\ req = NoReq
    /\ gen = NoGen
    /\ err = "none"
    /\ consulted = FALSE
    /\ calls = 0
    /\ args = NoArgs
    /\ graph = <<>>
    /\ blocks = <<>>

\* a constructor call; a run constructs one generator, and constructs again
\* only after a constructor raised
Construct(kind, n_output_node, input_shape, r) ==
    /\ gen.kind = "none"
    /\ req' = [kind |-> kind, n_output_node |-> n_output_node, input_shape |-> input_shape]
    /\ gen' = r.self
    /\ err' = r.err
    /\ consulted' = r.consulted
    /\ calls' = 0
    /\ args' = NoArgs
    /\ graph' = <<>>
    /\ blocks' = <<>>

\* a generate call on the current instance
Generate(r, len, width) ==
    /\ calls < MaxCalls
    /\ calls' = calls + 1
    /\ gen' = r.self
    /\ err' = r.err
    /\ graph' = r.graph
    /\ blocks' = r.blocks
    /\ args' = [len |-> len, width |-> width]
    /\ UNCHANGED <<req, consulted>>

NewCnn ==
    \E n \in OutputCardinalities, s \in InputShapes : Construct("cnn", n, s, CnnGenerator_new(n, s))

NewMlp ==
    \E n \in OutputCardinalities, s \in InputShapes : Construct("mlp", n, s, MlpGenerator_new(n, s))

GenerateCnn ==
    /\ gen.kind = "cnn"
    /\ \E len \in Depths, width \in CnnWidthArgs :
          Generate(CnnGenerator_generate(gen, len, width), len, width)

GenerateMlp ==
    /\ gen.kind = "mlp"
    /\ \E len \in Depths, width \in MlpWidthArgs :
          Generate(MlpGenerator_generate(gen, len, width), len, width)

NewResNet ==
    \E n \in OutputCardinalities, s \in InputShapes : Construct("resnet", n, s, ResNetGenerator_new(n, s))

NewDenseNet ==
    \E n \in OutputCardinalities, s \in InputShapes : Construct("densenet", n, s, DenseNetGenerator_new(n, s))

NewMobileNet ==
    \E n \in OutputCardinalities, s \in InputShapes :
        Construct("mobilenet", n, s, MobileNetV2Generator_new(n, s))

GenerateResNet ==
    /\ gen.kind = "resnet"
    /\ \E len \in UnusedDepths, width \in CnnWidthArgs :
          Generate(ResNetGenerator_generate(gen, len, width), len, width)

GenerateDenseNet ==
    /\ gen.kind = "densenet"
    /\ \E len \in UnusedDepths, width \in CnnWidthArgs :
          Generate(DenseNetGenerator_generate(gen, len, width), len, width)

GenerateMobileNet ==
    /\ gen.kind = "mobilenet"
    /\ \E len \in UnusedDepths, width \in CnnWidthArgs :
          Generate(MobileNetV2Generator_generate(gen, len, width), len, width)

Next ==
    \/ NewCnn
    \/ NewMlp
    \/ NewResNet
    \/ NewDenseNet
    \/ NewMobileNet
    \/ GenerateCnn
    \/ GenerateMlp
    \/ GenerateResNet
    \/ GenerateDenseNet
    \/ GenerateMobileNet

Spec == Init /\ [][Next]_vars

(* ----------------------------- properties ------------------------------ *)
CnnFamily == {"cnn", "resnet", "densenet", "mobilenet"}
\* the depth the last generate call worked with
LastLen == ArgOr(args.len, MODEL_LEN)
LastWidth == ArgOr(args.width.val, MODEL_WIDTH)
\* channel count of the node a layer is appended to
PredChannels(g, id) == Last(NodeShape(g, g[id + 1].preds[1]))
FinalNode(g) == g[Len(g)]

\* C1: on a freshly constructed generator, two generate calls with identical
\* arguments return graphs with the same nodes, shapes and operator
\* descriptors in the same order.
C1_GenerateTwiceSameGraph ==
    [][(calls = 1 /\ calls' = 2 /\ args' = args /\ err = "none" /\ err' = "none")
          => graph' = graph]_vars

\* C2: in the graph of the first generate call on a generator, every
\* convolution, normalization and dense operator is declared with an input
\* channel count equal to the channel dimension of the node it is appended to.
DeclaredChannelsMatch(g) ==
    \A id \in 1..(Len(g) - 1) :
        g[id + 1].layer.kind \in {"conv", "batch_norm", "dense"}
            => g[id + 1].layer.inC = PredChannels(g, id)
C2_DeclaredChannelsMatch ==
    (calls = 1 /\ err = "none") => DeclaredChannelsMatch(graph)

\* C3: a generate call leaves every field of the generator instance as it was.
C3_GenerateKeepsInstance == [][calls' = calls + 1 => gen' = gen]_vars

\* C4: for an input shape of an accepted rank (2..4 for the CNN family, 1 for
\* MLP) the constructor returns an instance, and generate with a depth and a
\* width that fit returns a graph whose last node is a dense node of shape
\* (output cardinality).
AcceptedRank ==
    \/ req.kind \in CnnFamily /\ Len(req.input_shape) \in 2..4
    \/ req.kind = "mlp" /\ Len(req.input_shape) = 1
WidthFits == args.width.form \in {"list", "tuple"} => Len(args.width.val) = LastLen
C4_GenerateEndsInOutputDense ==
    AcceptedRank =>
        /\ gen.kind = req.kind
        /\ calls = 0 => err = "none"
        /\ (calls > 0 /\ WidthFits) =>
              /\ err = "none"
              /\ FinalNode(graph).layer.kind = "dense"
              /\ FinalNode(graph).shape = <<gen.n_output_node>>
              /\ gen.n_output_node = req.n_output_node
C4_Witness ==
    /\ AcceptedRank
    /\ gen.kind = "resnet"
    /\ Len(req.input_shape) = 4
    /\ calls = 1
    /\ req.n_output_node = 10
    /\ FinalNode(graph).shape = <<10>>

\* C5: constructing a CNN-family generator with an input shape of rank 0 or
\* rank 5 raises the template's InvalidInputRank before the operator resolver
\* is consulted, and produces no instance.
C5_CnnFamilyRejectsRank ==
    (req.kind \in CnnFamily /\ Len(req.input_shape) \in {0, 5}) =>
        (gen = NoGen /\ err = "InvalidInputRank" /\ ~consulted)

\* C6: constructing the MLP generator raises InvalidInputRank for every input
\* rank other than 1, rank 0 included, and returns an instance for rank 1.
C6_MlpRejectsRank ==
    req.kind = "mlp" =>
        IF Len(req.input_shape) = 1 THEN gen.kind = "mlp"
        ELSE gen = NoGen /\ err = "InvalidInputRank"

\* C7: on an MLP generator for a flat input, generate with a width sequence
\* (list or tuple) whose length differs from the depth raises
\* WidthLengthMismatch and builds nothing; with a sequence of the depth's
\* length, or an integer, it returns dense, dropout, activation per width in
\* order and one final dense to the output cardinality.
RECURSIVE MlpExpected(_, _, _)
MlpExpected(widths, prev, n_output_node) ==
    IF widths = <<>> THEN <<StubDense(prev, n_output_node)>>
    ELSE <<StubDense(prev, Head(widths)), StubDropout1d(MLP_DROPOUT_RATE), StubReLU>>
            \o MlpExpected(Tail(widths), Head(widths), n_output_node)
LayersOf(g) == [i \in 1..(Len(g) - 1) |-> g[i + 1].layer]
C7_MlpWidthLength ==
    (gen.kind = "mlp" /\ Len(gen.input_shape) = 1 /\ calls > 0) =>
        IF args.width.form \in {"list", "tuple"} /\ Len(args.width.val) # LastLen
        THEN err = "WidthLengthMismatch" /\ graph = <<>>
        ELSE /\ err = "none"
             /\ LayersOf(graph) =
                   MlpExpected(IF args.width.form \in {"list", "tuple"} THEN args.width.val
                               ELSE [i \in 1..LastLen |-> LastWidth],
                               gen.input_shape[1], gen.n_output_node)

\* C8: Plain-CNN generate with depth d appends, for each iteration i = 1..d,
\* activation, normalization, convolution(-> width) and then a pooling node
\* exactly when floor(d/4) = 0 or (i is a multiple of floor(d/4) and i # d);
\* after the loop global-average-pool, dropout, dense(-> width), activation,
\* dense(width -> output cardinality).  For d = 8 the pooling nodes follow
\* iterations 2, 4 and 6 only.
CnnPoolExpected(i, d) ==
    IF d \div 4 = 0 THEN TRUE ELSE i % (d \div 4) = 0 /\ i # d
RECURSIVE CnnKindsExpected(_, _)
CnnKindsExpected(i, d) ==
    IF i > d
    THEN <<"global_avg_pooling", "dropout", "dense", "relu", "dense">>
    ELSE <<"relu", "batch_norm", "conv">>
            \o (IF CnnPoolExpected(i, d) THEN <<"max_pooling">> ELSE <<>>)
            \o CnnKindsExpected(i + 1, d)
KindsOf(g) == [i \in 1..(Len(g) - 1) |-> g[i + 1].layer.kind]
CnnKindsDepth8 ==
    <<"relu", "batch_norm", "conv",
      "relu", "batch_norm", "conv", "max_pooling",
      "relu", "batch_norm", "conv",
      "relu", "batch_norm", "conv", "max_pooling",
      "relu", "batch_norm", "conv",
      "relu", "batch_norm", "conv", "max_pooling",
      "relu", "batch_norm", "conv",
      "relu", "batch_norm", "conv",
      "global_avg_pooling", "dropout", "dense", "relu", "dense">>
C8_CnnLayerOrder ==
    (gen.kind = "cnn" /\ calls > 0) =>
        /\ err = "none"
        /\ KindsOf(graph) = CnnKindsExpected(1, LastLen)
        /\ LastLen = 8 => KindsOf(graph) = CnnKindsDepth8
        /\ \A n \in 1..Len(graph) :
              graph[n].layer.kind = "conv" => graph[n].layer.outC = LastWidth
        /\ graph[Len(graph) - 2].layer = StubDense(PredChannels(graph, Len(graph) - 3), LastWidth)
        /\ FinalNode(graph).layer = StubDense(LastWidth, gen.n_output_node)
C8_Witness ==
    /\ gen.kind = "cnn"
    /\ calls > 0
    /\ args.len = <<8>>
    /\ KindsOf(graph) = CnnKindsDepth8

\* C9: in DenseNet generate every dense layer is declared with the channel
\* count its block-local input node has, a block of num_layers layers started
\* at num_input_features ends with num_input_features + num_layers *
\* growth_rate channels, each transition leaves the floor of half of that, and
\* the final normalization and dense are declared with the final channel count.
DenseLayersDeclared(g) ==
    \A id \in 1..(Len(g) - 1) :
        g[id + 1].layer.kind = "concatenate" =>
            LET input == g[id + 1].preds[1]
            IN  /\ g[id - 6].preds = <<input>>
                /\ g[id - 6].layer = batch_norm(Last(NodeShape(g, input)))
                /\ g[id - 4].layer.inC = Last(NodeShape(g, input))
                /\ Last(NodeShape(g, id)) = Last(NodeShape(g, input)) + growth_rate
DenseBlocksAccounted(g, bs) ==
    \A i \in 1..Len(bs) :
        /\ Last(NodeShape(g, bs[i].input)) = bs[i].in_planes
        /\ Last(NodeShape(g, bs[i].last)) = bs[i].in_planes + bs[i].layers * growth_rate
        /\ i < Len(bs) =>
              Last(NodeShape(g, bs[i + 1].input)) = Last(NodeShape(g, bs[i].last)) \div 2
DenseFinalDeclared(g) ==
    /\ g[Len(g) - 3].layer.kind = "batch_norm"
    /\ g[Len(g) - 3].layer.inC = PredChannels(g, Len(g) - 4)
    /\ FinalNode(g).layer.inC = PredChannels(g, Len(g) - 1)
C9_DenseNetChannelAccounting ==
    (gen.kind = "densenet" /\ calls > 0 /\ err = "none") =>
        /\ DenseLayersDeclared(graph)
        /\ DenseBlocksAccounted(graph, blocks)
        /\ DenseFinalDeclared(graph)

\* C10: a MobileNet-V2 inverted-residual block appends an elementwise-add node
\* exactly when its stride is 1 and in_planes # out_planes; the add is the
\* block's last node and its two predecessors, the end of the main branch and
\* the end of the projection shortcut, have identical shapes.
AddsOf(g, b) == {id \in b.first..b.last : g[id + 1].layer.kind = "add"}
BlockAddsRight(g, b) ==
    /\ Cardinality(AddsOf(g, b)) = IF b.stride = 1 /\ b.in_planes # b.out_planes THEN 1 ELSE 0
    /\ \A id \in AddsOf(g, b) :
          /\ id = b.last
          /\ g[id + 1].preds = <<id - 3, id - 1>>
          /\ NodeShape(g, id - 3) = NodeShape(g, id - 1)
          /\ g[id].preds = <<id - 2>>
          /\ g[id - 1].preds = <<b.input>>
C10_MobileNetAddIffProjection ==
    (gen.kind = "mobilenet" /\ calls > 0 /\ err = "none") =>
        /\ Len(blocks) = 3
        /\ \A i \in 1..Len(blocks) : BlockAddsRight(graph, blocks[i])
C10_Witness ==
    /\ gen.kind = "mobilenet"
    /\ calls > 0
    /\ \E i \in 1..Len(blocks) :
          /\ blocks[i].stride = 1
          /\ blocks[i].in_planes = blocks[i].out_planes
          /\ AddsOf(graph, blocks[i]) = {}
    /\ \E i \in 1..Len(blocks) :
          /\ blocks[i].stride = 1
          /\ blocks[i].in_planes # blocks[i].out_planes
          /\ Cardinality(AddsOf(graph, blocks[i])) = 1

\* C11: after a ResNet generate on a freshly constructed instance with width
\* w (default 64) in_planes is w * 2 * 2 * 2 (512 for the default) and the
\* final dense layer is declared with that input size.
C11_ResNetFinalInPlanes ==
    (gen.kind = "resnet" /\ calls = 1 /\ err = "none") =>
        /\ gen.in_planes = LastWidth * 2 * 2 * 2
        /\ args.width = NoneWidth => gen.in_planes = 512
        /\ FinalNode(graph).layer.kind = "dense"
        /\ FinalNode(graph).layer.inC = gen.in_planes
C11_Witness ==
    /\ gen.kind = "resnet"
    /\ calls = 1
    /\ args.width = NoneWidth
    /\ gen.in_planes = 512
    /\ FinalNode(graph).layer.inC = 512

\* the nodes of one basic block b of graph g, with n normalizations at the end
\* of the main branch: normalize, activate, conv(3, stride), normalize,
\* activate, conv(3, 1), n normalizations; then from the activate node
\* activate, conv(1, stride, -> planes); then the add of the two branch ends
ResNetBlockLaidOut(g, b, n) ==
    LET f == b.first
        L(k) == g[f + k + 1].layer
        P(k) == g[f + k + 1].preds
    IN  /\ b.last = f + 8 + n
        /\ L(0).kind = "batch_norm" /\ P(0) = <<b.input>>
        /\ L(1).kind = "relu" /\ P(1) = <<f>>
        /\ L(2).kind = "conv" /\ L(2).k = 3 /\ L(2).s = b.stride /\ P(2) = <<f + 1>>
        /\ L(3).kind = "batch_norm" /\ P(3) = <<f + 2>>
        /\ L(4).kind = "relu" /\ P(4) = <<f + 3>>
        /\ L(5).kind = "conv" /\ L(5).k = 3 /\ L(5).s = 1 /\ P(5) = <<f + 4>>
        /\ \A k \in 6..(5 + n) : L(k).kind = "batch_norm" /\ P(k) = <<f + k - 1>>
        /\ L(6 + n).kind = "relu" /\ P(6 + n) = <<f + 1>>
        /\ L(7 + n).kind = "conv" /\ L(7 + n).k = 1 /\ L(7 + n).s = b.stride
        /\ L(7 + n).outC = b.out_planes /\ P(7 + n) = <<f + 6 + n>>
        /\ L(8 + n).kind = "add" /\ P(8 + n) = <<f + 5 + n, f + 7 + n>>
        /\ NodeShape(g, f + 5 + n) = NodeShape(g, f + 7 + n)
ResNetBlockStrides == <<1, 1, 2, 1, 2, 1, 2, 1>>
ResNetBlocksLaidOut(n) ==
    (gen.kind = "resnet" /\ calls > 0 /\ err = "none") =>
        /\ [i \in 1..Len(blocks) |-> blocks[i].stride] = ResNetBlockStrides
        /\ \A i \in 1..Len(blocks) : ResNetBlockLaidOut(graph, blocks[i], n)

\* C12 as stated: each of the eight ResNet basic blocks is normalize,
\* activate, main branch conv(3, stride), normalize, activate, conv(3, 1),
\* normalize, shortcut branch activate, conv(1, stride, -> planes) from the
\* pre-branch node, and one add of the two branch ends, of identical shapes.
C12_ResNetBlockWithFinalNorm == ResNetBlocksLaidOut(1)

\* C12 amended: the same, with the main branch ending at its second
\* convolution (no normalization after it).
C12_ResNetBlockLayout == ResNetBlocksLaidOut(0)
C12_Witness ==
    /\ gen.kind = "resnet"
    /\ calls > 0
    /\ Len(blocks) = 8
    /\ \E i \in 1..Len(blocks) :
          /\ blocks[i].stride = 2
          /\ graph[blocks[i].last + 1].layer.kind = "add"
          /\ ResNetBlockLaidOut(graph, blocks[i], 0)

====
